---- MODULE Spec2Model ----
(***************************************************************************)
(* Model of rumble-test.py: a linear script that locates a USB wireless    *)
(* receiver, resolves an interrupt-OUT endpoint of its active              *)
(* configuration, claims the owning interface and writes two 8-byte        *)
(* packets two seconds apart.  Every statement of the script is one        *)
(* action; the USB stack is the environment: it decides which devices are  *)
(* attached, which configuration the device reports and whether a call     *)
(* into it raises.                                                         *)
(***************************************************************************)
EXTENDS Integers, Sequences, FiniteSets

VARIABLES pc, attached, dev, configured, cfg, i, j, ep_out, intf, claimed,
          data, ops, writes, claims, elapsed, stdout, exception

vars == <<pc, attached, dev, configured, cfg, i, j, ep_out, intf, claimed,
          data, ops, writes, claims, elapsed, stdout, exception>>

(* ---------------------------- bounds ----------------------------------- *)
MaxInterfaces == 2
MaxEndpoints == 2
MaxDevices == 2

(* ------------------------ program constants ---------------------------- *)
VID == 1118                      \* 0x045e
PID == 1817                      \* 0x0719
ENDPOINT_OUT == 0                \* usb.util.ENDPOINT_OUT  (0x00)
ENDPOINT_TYPE_INTR == 3          \* usb.util.ENDPOINT_TYPE_INTR (0x03)
SleepSeconds == 2

None == [none |-> TRUE]

\* usb.util.endpoint_direction(address): address & 0x80 on a byte
endpoint_direction(address) == ((address \div 128) % 2) * 128

\* usb.util.endpoint_type(bmAttributes): bmAttributes & 0x03
endpoint_type(bmAttributes) == bmAttributes % 4

\* the two nested conditions of the scan, lines 23-24
\* (fault variant: the direction test of line 23 dropped)
QualifiesAnyDirection(ep) ==
    endpoint_type(ep.bmAttributes) = ENDPOINT_TYPE_INTR
Qualifies(ep) ==
    /\ endpoint_direction(ep.bEndpointAddress) = ENDPOINT_OUT
    /\ endpoint_type(ep.bmAttributes) = ENDPOINT_TYPE_INTR

\* the rumble packet of line 35 and the stop packet of line 43
\* (fault variant: the second motor byte of line 35 left at zero)
ActivationDataOneMotor == <<0, 8, 255, 0, 0, 0, 0, 0>>
ActivationData == <<0, 8, 255, 255, 0, 0, 0, 0>>
DeactivationData == <<0, 8, 0, 0, 0, 0, 0, 0>>

(* ------------------------- the environment ----------------------------- *)
\* devices that may be attached: the receiver, a device of the same vendor
\* with another product id, a device of another vendor with the same
\* product id
DevicePool ==
    { [idVendor |-> 1118, idProduct |-> 1817],
      [idVendor |-> 1118, idProduct |-> 654],
      [idVendor |-> 1133, idProduct |-> 1817] }

\* endpoint descriptors a configuration may hold: two interrupt-OUT, one
\* interrupt-IN, one bulk-OUT, one control, one isochronous-OUT (with
\* synchronisation bits set above the two type bits)
DescriptorPool ==
    { [bEndpointAddress |-> 1,   bmAttributes |-> 3],
      [bEndpointAddress |-> 2,   bmAttributes |-> 3],
      [bEndpointAddress |-> 129, bmAttributes |-> 3],
      [bEndpointAddress |-> 3,   bmAttributes |-> 2],
      [bEndpointAddress |-> 0,   bmAttributes |-> 0],
      [bEndpointAddress |-> 4,   bmAttributes |-> 13] }

EndpointLists == UNION { [1..m -> DescriptorPool] : m \in 0..MaxEndpoints }
Layouts == UNION { [1..n -> EndpointLists] : n \in 0..MaxInterfaces }

\* the configuration object handed out by get_active_configuration: every
\* interface and endpoint object carries its identity (its position)
MakeEndpoint(k, m, d) ==
    [id |-> <<k, m>>, bEndpointAddress |-> d.bEndpointAddress,
     bmAttributes |-> d.bmAttributes]
MakeInterface(k, eps) ==
    [id |-> k, bInterfaceNumber |-> k - 1,
     endpoints |-> [m \in 1..Len(eps) |-> MakeEndpoint(k, m, eps[m])]]
MakeConfiguration(layout) ==
    [k \in 1..Len(layout) |-> MakeInterface(k, layout[k])]

\* usb.core.find(idVendor=VID, idProduct=PID): a matching device or None
\* (fault variant: the lookup of line 8 without idProduct)
MatchingVendorOnly == { d \in attached : d.idVendor = VID }
Matching == { d \in attached : d.idVendor = VID /\ d.idProduct = PID }
find == IF Matching = {} THEN None ELSE CHOOSE d \in Matching : TRUE

(* ------------------------------ Init ----------------------------------- *)
Init ==
    /\ pc = "find"
    /\ attached \in { a \in SUBSET DevicePool : Cardinality(a) <= MaxDevices }
    /\ dev = None
    /\ configured = FALSE
    /\ cfg = <<>>
    /\ i = 0
    /\ j = 0
    /\ ep_out = None
    /\ intf = None
    /\ claimed = {}
    /\ data = <<>>
    /\ ops = <<>>
    /\ writes = <<>>
    /\ claims = <<>>
    /\ elapsed = 0
    /\ stdout = <<>>
    /\ exception = ""

(* ----------------------------- actions --------------------------------- *)
\* line 8: dev = usb.core.find(idVendor=VID, idProduct=PID)
FindDevice ==
    /\ pc = "find"
    /\ dev' = find
    /\ ops' = Append(ops, "find")
    /\ pc' = "check_dev"
    /\ UNCHANGED <<attached, configured, cfg, i, j, ep_out, intf, claimed,
                   data, writes, claims, elapsed, stdout, exception>>

\* lines 10-11: if dev is None: raise Exception("Receiver not found")
CheckDevice ==
    /\ pc = "check_dev"
    /\ IF dev = None
       THEN /\ pc' = "raised"
            /\ exception' = "Receiver not found"
       ELSE /\ pc' = "set_configuration"
            /\ UNCHANGED exception
    /\ UNCHANGED <<attached, dev, configured, cfg, i, j, ep_out, intf,
                   claimed, data, ops, writes, claims, elapsed, stdout>>

\* line 13: dev.set_configuration() returns
SetConfiguration ==
    /\ pc = "set_configuration"
    /\ configured' = TRUE
    /\ ops' = Append(ops, "set_configuration")
    /\ pc' = "get_active_configuration"
    /\ UNCHANGED <<attached, dev, cfg, i, j, ep_out, intf, claimed, data,
                   writes, claims, elapsed, stdout, exception>>

\* line 13: dev.set_configuration() raises
SetConfigurationFails ==
    /\ pc = "set_configuration"
    /\ ops' = Append(ops, "set_configuration")
    /\ pc' = "raised"
    /\ exception' = "USBError"
    /\ UNCHANGED <<attached, dev, configured, cfg, i, j, ep_out, intf,
                   claimed, data, writes, claims, elapsed, stdout>>

\* lines 15-19: cfg = dev.get_active_configuration(); ep_out = None;
\* intf = None
GetActiveConfiguration ==
    /\ pc = "get_active_configuration"
    /\ \E layout \in Layouts : cfg' = MakeConfiguration(layout)
    /\ ep_out' = None
    /\ intf' = None
    /\ ops' = Append(ops, "get_active_configuration")
    /\ pc' = "for_interface"
    /\ UNCHANGED <<attached, dev, configured, i, j, claimed, data, writes,
                   claims, elapsed, stdout, exception>>

\* line 21: for interface in cfg  (fetch the next interface, or leave the
\* loop when the configuration is exhausted)
ForInterface ==
    /\ pc = "for_interface"
    /\ IF i < Len(cfg)
       THEN /\ i' = i + 1
            /\ j' = 0
            /\ pc' = "for_ep"
       ELSE /\ pc' = "check_ep_out"
            /\ UNCHANGED <<i, j>>
    /\ UNCHANGED <<attached, dev, configured, cfg, ep_out, intf, claimed,
                   data, ops, writes, claims, elapsed, stdout, exception>>

\* the loop variables of lines 21 and 22
interface == cfg[i]
NextEp == cfg[i].endpoints[j + 1]

\* lines 22-27: the next endpoint of the interface passes both tests:
\* ep_out = ep; intf = interface; break.  The break leaves the loop over
\* the endpoints only; control returns to the loop over the interfaces.
\* (fault variant: line 27 missing, the loop over the endpoints goes on)
EndpointMatchNoBreak ==
    /\ pc = "for_ep"
    /\ j < Len(interface.endpoints)
    /\ Qualifies(NextEp)
    /\ j' = j + 1
    /\ ep_out' = NextEp
    /\ intf' = interface
    /\ pc' = "for_ep"
    /\ UNCHANGED <<attached, dev, configured, cfg, i, claimed, data, ops,
                   writes, claims, elapsed, stdout, exception>>
EndpointMatch ==
    /\ pc = "for_ep"
    /\ j < Len(interface.endpoints)
    /\ Qualifies(NextEp)
    /\ j' = j + 1
    /\ ep_out' = NextEp
    /\ intf' = interface
    /\ pc' = "for_interface"
    /\ UNCHANGED <<attached, dev, configured, cfg, i, claimed, data, ops,
                   writes, claims, elapsed, stdout, exception>>

\* lines 22-24: the next endpoint fails one of the two tests
EndpointSkip ==
    /\ pc = "for_ep"
    /\ j < Len(interface.endpoints)
    /\ ~Qualifies(NextEp)
    /\ j' = j + 1
    /\ pc' = "for_ep"
    /\ UNCHANGED <<attached, dev, configured, cfg, i, ep_out, intf, claimed,
                   data, ops, writes, claims, elapsed, stdout, exception>>

\* line 22: the endpoints of the interface are exhausted
EndpointsExhausted ==
    /\ pc = "for_ep"
    /\ j >= Len(interface.endpoints)
    /\ pc' = "for_interface"
    /\ UNCHANGED <<attached, dev, configured, cfg, i, j, ep_out, intf,
                   claimed, data, ops, writes, claims, elapsed, stdout,
                   exception>>

\* lines 29-30: if ep_out is None: raise Exception("Interrupt OUT endpoint
\* not found")
\* (fault variant: line 30 exits quietly instead of raising)
CheckEndpointSilent ==
    /\ pc = "check_ep_out"
    /\ IF ep_out = None
       THEN pc' = "done"
       ELSE pc' = "claim_interface"
    /\ UNCHANGED <<attached, dev, configured, cfg, i, j, ep_out, intf,
                   claimed, data, ops, writes, claims, elapsed, stdout,
                   exception>>
CheckEndpoint ==
    /\ pc = "check_ep_out"
    /\ IF ep_out = None
       THEN /\ pc' = "raised"
            /\ exception' = "Interrupt OUT endpoint not found"
       ELSE /\ pc' = "claim_interface"
            /\ UNCHANGED exception
    /\ UNCHANGED <<attached, dev, configured, cfg, i, j, ep_out, intf,
                   claimed, data, ops, writes, claims, elapsed, stdout>>

\* line 32: usb.util.claim_interface(dev, intf.bInterfaceNumber) returns
\* (fault variant: line 32 claims the first interface of cfg)
ClaimInterfaceFirst ==
    /\ pc = "claim_interface"
    /\ claimed' = claimed \cup {cfg[1].bInterfaceNumber}
    /\ claims' = Append(claims, cfg[1].bInterfaceNumber)
    /\ ops' = Append(ops, "claim_interface")
    /\ pc' = "write_activation"
    /\ UNCHANGED <<attached, dev, configured, cfg, i, j, ep_out, intf, data,
                   writes, elapsed, stdout, exception>>
ClaimInterface ==
    /\ pc = "claim_interface"
    /\ claimed' = claimed \cup {intf.bInterfaceNumber}
    /\ claims' = Append(claims, intf.bInterfaceNumber)
    /\ ops' = Append(ops, "claim_interface")
    /\ pc' = "write_activation"
    /\ UNCHANGED <<attached, dev, configured, cfg, i, j, ep_out, intf, data,
                   writes, elapsed, stdout, exception>>

\* line 32: usb.util.claim_interface raises (interface busy, device gone)
ClaimInterfaceFails ==
    /\ pc = "claim_interface"
    /\ claims' = Append(claims, intf.bInterfaceNumber)
    /\ ops' = Append(ops, "claim_interface")
    /\ pc' = "raised"
    /\ exception' = "USBError"
    /\ UNCHANGED <<attached, dev, configured, cfg, i, j, ep_out, intf,
                   claimed, data, writes, elapsed, stdout>>

\* dev.write(endpoint, buffer): one record per call, ok = the call returned
WriteCall(endpoint, buffer, ok) ==
    [endpoint |-> endpoint, data |-> buffer, ok |-> ok]

\* lines 35-38: data = [0x00,0x08,0xFF,0xFF,0,0,0,0];
\* dev.write(ep_out.bEndpointAddress, data) returns
WriteActivation ==
    /\ pc = "write_activation"
    /\ data' = ActivationData
    /\ writes' = Append(writes, WriteCall(ep_out.bEndpointAddress, data', TRUE))
    /\ ops' = Append(ops, "write")
    /\ pc' = "sleep"
    /\ UNCHANGED <<attached, dev, configured, cfg, i, j, ep_out, intf,
                   claimed, claims, elapsed, stdout, exception>>

\* lines 35-38: the first dev.write raises
\* (fault variant: the failure of line 38 swallowed)
WriteActivationFailsIgnored ==
    /\ pc = "write_activation"
    /\ data' = ActivationData
    /\ writes' = Append(writes, WriteCall(ep_out.bEndpointAddress, data', FALSE))
    /\ ops' = Append(ops, "write")
    /\ pc' = "sleep"
    /\ UNCHANGED <<attached, dev, configured, cfg, i, j, ep_out, intf,
                   claimed, claims, elapsed, stdout, exception>>
WriteActivationFails ==
    /\ pc = "write_activation"
    /\ data' = ActivationData
    /\ writes' = Append(writes, WriteCall(ep_out.bEndpointAddress, data', FALSE))
    /\ ops' = Append(ops, "write")
    /\ pc' = "raised"
    /\ exception' = "USBError"
    /\ UNCHANGED <<attached, dev, configured, cfg, i, j, ep_out, intf,
                   claimed, claims, elapsed, stdout>>

\* line 40: time.sleep(2)
\* (fault variant: line 40 missing)
SleepSkipped ==
    /\ pc = "sleep"
    /\ pc' = "write_deactivation"
    /\ UNCHANGED <<attached, dev, configured, cfg, i, j, ep_out, intf,
                   claimed, data, ops, writes, claims, elapsed, stdout,
                   exception>>
Sleep ==
    /\ pc = "sleep"
    /\ elapsed' = elapsed + SleepSeconds
    /\ ops' = Append(ops, "sleep")
    /\ pc' = "write_deactivation"
    /\ UNCHANGED <<attached, dev, configured, cfg, i, j, ep_out, intf,
                   claimed, data, writes, claims, stdout, exception>>

\* lines 43-44: data = [0x00,0x08,0x00,0x00,0,0,0,0];
\* dev.write(ep_out.bEndpointAddress, data) returns
WriteDeactivation ==
    /\ pc = "write_deactivation"
    /\ data' = DeactivationData
    /\ writes' = Append(writes, WriteCall(ep_out.bEndpointAddress, data', TRUE))
    /\ ops' = Append(ops, "write")
    /\ pc' = "print"
    /\ UNCHANGED <<attached, dev, configured, cfg, i, j, ep_out, intf,
                   claimed, claims, elapsed, stdout, exception>>

\* lines 43-44: the second dev.write raises
WriteDeactivationFails ==
    /\ pc = "write_deactivation"
    /\ data' = DeactivationData
    /\ writes' = Append(writes, WriteCall(ep_out.bEndpointAddress, data', FALSE))
    /\ ops' = Append(ops, "write")
    /\ pc' = "raised"
    /\ exception' = "USBError"
    /\ UNCHANGED <<attached, dev, configured, cfg, i, j, ep_out, intf,
                   claimed, claims, elapsed, stdout>>

\* line 46: print("Done"), then the interpreter exits
\* (fault variant: the interface released before exit)
PrintDoneReleasing ==
    /\ pc = "print"
    /\ stdout' = Append(stdout, "Done")
    /\ claimed' = {}
    /\ pc' = "done"
    /\ UNCHANGED <<attached, dev, configured, cfg, i, j, ep_out, intf, data,
                   ops, writes, claims, elapsed, exception>>
PrintDone ==
    /\ pc = "print"
    /\ stdout' = Append(stdout, "Done")
    /\ pc' = "done"
    /\ UNCHANGED <<attached, dev, configured, cfg, i, j, ep_out, intf,
                   claimed, data, ops, writes, claims, elapsed, exception>>

Next ==
    \/ FindDevice
    \/ CheckDevice
    \/ SetConfiguration
    \/ SetConfigurationFails
    \/ GetActiveConfiguration
    \/ ForInterface
    \/ EndpointMatch
    \/ EndpointSkip
    \/ EndpointsExhausted
    \/ CheckEndpoint
    \/ ClaimInterface
    \/ ClaimInterfaceFails
    \/ WriteActivation
    \/ WriteActivationFails
    \/ Sleep
    \/ WriteDeactivation
    \/ WriteDeactivationFails
    \/ PrintDone

Spec == Init /\ [][Next]_vars

(* ----------------------- vocabulary of the properties ------------------ *)
\* an endpoint descriptor of direction OUT (bit 7 of the address clear) and
\* of transfer type interrupt (the two low bits of the attributes are 11)
InterruptOut(ep) == ep.bEndpointAddress < 128 /\ ep.bmAttributes % 4 = 3

\* positions <<interface, endpoint>> of the configuration, and their
\* enumeration order: interfaces in configuration order, endpoints in
\* descriptor order
Positions ==
    { <<k, m>> : k \in 1..MaxInterfaces + 1, m \in 1..MaxEndpoints + 1 }
InCfg(p) == p[1] <= Len(cfg) /\ p[2] <= Len(cfg[p[1]].endpoints)
At(p) == cfg[p[1]].endpoints[p[2]]
QualifyingPositions == { p \in Positions : InCfg(p) /\ InterruptOut(At(p)) }
Before(p, q) == p[1] < q[1] \/ (p[1] = q[1] /\ p[2] < q[2])
QualifyingInterfaces == { p[1] : p \in QualifyingPositions }

CfgRead == \E n \in 1..Len(ops) : ops[n] = "get_active_configuration"
ScanOver == CfgRead /\ pc \notin {"for_interface", "for_ep"}
Resolved == ScanOver /\ ep_out # None
Terminated == pc \in {"done", "raised"}
NoReceiverAttached ==
    ~ \E d \in attached : d.idVendor = 1118 /\ d.idProduct = 1817

IsUsbOp(o) == o \in {"find", "claim_interface", "write", "sleep"}
UsbOps == SelectSeq(ops, IsUsbOp)
ExpectedOps == <<"find", "claim_interface", "write", "sleep", "write">>
IsPrefix(s, t) == Len(s) <= Len(t) /\ SubSeq(t, 1, Len(s)) = s
IsOk(w) == w.ok
Delivered == SelectSeq(writes, IsOk)

(* ------------------------------ claims --------------------------------- *)
\* C1: when two or more interfaces each hold an interrupt-OUT endpoint, the
\* endpoint selected by the scan is the first qualifying endpoint in
\* enumeration order (it belongs to the earliest such interface).
C1_FirstAcrossInterfaces ==
    (Resolved /\ Cardinality(QualifyingInterfaces) >= 2)
        => \A q \in QualifyingPositions :
               ep_out.id = q \/ Before(ep_out.id, q)

\* C2 as stated: every run that found the device and resolved an endpoint
\* performs locate, claim, write, wait, write, each exactly once and in
\* this order, the first write carrying the activation packet and the
\* second the deactivation packet.
C2_EveryResolvedRunPerformsAll ==
    (Terminated /\ dev # None /\ ep_out # None)
        => /\ UsbOps = ExpectedOps
           /\ Len(writes) = 2
           /\ writes[1].data = <<0, 8, 255, 255, 0, 0, 0, 0>>
           /\ writes[2].data = <<0, 8, 0, 0, 0, 0, 0, 0>>

\* C2 (amended): the operations performed so far are always a prefix of
\* locate, claim, write, wait, write; the first write carries the
\* activation packet and the second the deactivation packet; no write
\* happens unless the interface is claimed; and a run that completes
\* normally has performed all five, each exactly once.
C2_OrderedPrefix ==
    /\ IsPrefix(UsbOps, ExpectedOps)
    /\ Len(claims) <= 1
    /\ Len(writes) <= 2
    /\ Len(writes) >= 1 => writes[1].data = <<0, 8, 255, 255, 0, 0, 0, 0>>
    /\ Len(writes) >= 2 => writes[2].data = <<0, 8, 0, 0, 0, 0, 0, 0>>
    /\ writes # <<>> => claimed # {}
    /\ pc = "done" => (UsbOps = ExpectedOps /\ Len(writes) = 2
                       /\ elapsed = 2)

C2_Witness == pc = "done" /\ stdout = <<"Done">> /\ Len(writes) = 2

\* C3: whenever an endpoint is selected it is an interrupt-OUT endpoint;
\* an interrupt-IN endpoint or an OUT endpoint of another type is never
\* selected, wherever it stands.
C3_OnlyInterruptOut ==
    /\ ep_out # None => (ep_out.bEndpointAddress < 128
                         /\ ep_out.bmAttributes % 4 = 3)
    /\ \A n \in 1..Len(writes) : writes[n].endpoint < 128

C3_Witness ==
    /\ Resolved
    /\ Len(writes) = 2
    /\ \E p \in Positions :
          /\ InCfg(p)
          /\ Before(p, ep_out.id)
          /\ At(p).bEndpointAddress >= 128
          /\ At(p).bmAttributes % 4 = 3
    /\ \E p \in Positions :
          /\ InCfg(p)
          /\ At(p).bEndpointAddress < 128
          /\ At(p).bmAttributes % 4 # 3

\* C4: when the configuration read from the device holds no interrupt-OUT
\* endpoint, the run ends with "Interrupt OUT endpoint not found", and no
\* interface is claimed, no packet is written and "Done" is not printed.
C4_EndpointNotFoundFatal ==
    (CfgRead /\ QualifyingPositions = {})
        => /\ claimed = {}
           /\ claims = <<>>
           /\ writes = <<>>
           /\ stdout = <<>>
           /\ pc \in {"for_interface", "for_ep", "check_ep_out", "raised"}
           /\ Terminated => exception = "Interrupt OUT endpoint not found"
           /\ pc = "raised" <=> exception # ""

C4_Witness ==
    /\ pc = "raised"
    /\ exception = "Interrupt OUT endpoint not found"
    /\ \E p \in Positions :
          InCfg(p) /\ At(p).bEndpointAddress < 128 /\ At(p).bmAttributes % 4 = 2
    /\ \E p \in Positions : InCfg(p) /\ At(p).bmAttributes % 4 = 0

\* C5: when no attached device has vendor id 0x045e and product id 0x0719,
\* the run ends with "Receiver not found" before any other device
\* operation: no configuration set, no endpoint resolved, no interface
\* claimed, no packet written, "Done" not printed.
C5_DeviceNotFoundFatal ==
    NoReceiverAttached
        => /\ pc \in {"find", "check_dev", "raised"}
           /\ Terminated => exception = "Receiver not found"
           /\ pc = "raised" <=> exception # ""
           /\ ~configured
           /\ \A n \in 1..Len(ops) : ops[n] = "find"
           /\ ~CfgRead
           /\ ep_out = None
           /\ claimed = {}
           /\ claims = <<>>
           /\ writes = <<>>
           /\ stdout = <<>>

C5_Witness ==
    /\ pc = "raised"
    /\ exception = "Receiver not found"
    /\ attached # {}
    /\ NoReceiverAttached

\* C6: the first packet written is [0,8,255,255,0,0,0,0], the second is
\* [0,8,0,0,0,0,0,0]; every write carries 8 bytes and nothing else is ever
\* written.
C6_PacketContents ==
    /\ Len(writes) <= 2
    /\ \A n \in 1..Len(writes) :
          /\ Len(writes[n].data) = 8
          /\ n = 1 => writes[n].data = <<0, 8, 255, 255, 0, 0, 0, 0>>
          /\ n = 2 => writes[n].data = <<0, 8, 0, 0, 0, 0, 0, 0>>

C6_Witness == Len(writes) = 2 /\ writes[1].ok /\ writes[2].ok

\* C7: the interface number passed to the claim is the number of the
\* interface that contains the selected endpoint, both writes go to the
\* selected endpoint's address, and that endpoint's interface is claimed
\* whenever a write is issued.
C7_ClaimOwnsEndpoint ==
    /\ ep_out # None => (InCfg(ep_out.id) /\ At(ep_out.id) = ep_out)
    /\ \A n \in 1..Len(claims) :
          claims[n] = cfg[ep_out.id[1]].bInterfaceNumber
    /\ \A n \in 1..Len(writes) :
          /\ writes[n].endpoint = At(ep_out.id).bEndpointAddress
          /\ cfg[ep_out.id[1]].bInterfaceNumber \in claimed

C7_Witness ==
    /\ Len(writes) = 2
    /\ Len(cfg) = 2
    /\ cfg[1].endpoints # <<>>
    /\ ep_out.id[1] = 2
    /\ claimed = {1}

\* C8: a failed activation write ends the run in an unhandled failure with
\* no retry, no deactivation write and no "Done"; a failed deactivation
\* write ends the run in an unhandled failure with no retry and no "Done",
\* the last delivered packet being the activation packet; "Done" is
\* printed only when both writes returned.
C8_TransferFailurePropagates ==
    /\ (Len(writes) >= 1 /\ ~writes[1].ok)
          => /\ pc = "raised"
             /\ exception = "USBError"
             /\ Len(writes) = 1
             /\ Delivered = <<>>
             /\ stdout = <<>>
    /\ (Len(writes) >= 2 /\ ~writes[2].ok)
          => /\ pc = "raised"
             /\ exception = "USBError"
             /\ Len(writes) = 2
             /\ Len(Delivered) = 1
             /\ Delivered[1].data = <<0, 8, 255, 255, 0, 0, 0, 0>>
             /\ stdout = <<>>
    /\ stdout # <<>>
          => /\ stdout = <<"Done">>
             /\ Len(writes) = 2
             /\ writes[1].ok
             /\ writes[2].ok

C8_Witness ==
    /\ pc = "raised"
    /\ Len(writes) = 2
    /\ writes[1].ok
    /\ ~writes[2].ok

\* C9: a claimed interface stays claimed in every later state, up to and
\* including termination, on the normal path and on the failure paths; at
\* most one interface is claimed in a run.
C9_ClaimNeverReleased ==
    [][/\ claimed \subseteq claimed'
       /\ Cardinality(claimed') <= 1
       /\ Len(claims') <= 1
       /\ (claimed # {} /\ pc' \in {"done", "raised"}) => claimed' # {}]_vars

C9_Witness == pc = "done" /\ claimed # {} /\ stdout = <<"Done">>

\* C10: the selected endpoint is the earliest interrupt-OUT endpoint, in
\* descriptor order, of the interface it was taken from.
C10_FirstWithinInterface ==
    ep_out # None
        => /\ intf # None
           /\ intf.id = ep_out.id[1]
           /\ \A m \in 1..(ep_out.id[2] - 1) :
                 ~InterruptOut(cfg[ep_out.id[1]].endpoints[m])

C10_Witness ==
    /\ Resolved
    /\ \E p \in QualifyingPositions :
          p[1] = ep_out.id[1] /\ p[2] > ep_out.id[2]
====
